---- MODULE Spec2Model ----
(***************************************************************************)
(* MemberRepository (services/apps/data_sink_worker/src/repo/member.repo.ts) *)
(* as a state machine over the tables it reads and writes: "members",      *)
(* "memberIdentities", "memberSegments" and "membersSyncRemote".  Every    *)
(* repository method that issues one SQL statement is one atomic action;   *)
(* update is split where it reads the clock (new Date()) before its        *)
(* statement runs, and getMemberIdsAndEmailsAndCount between its count     *)
(* query and its listing query, so that concurrent calls interleave        *)
(* between the two.  Lookups are operators over the stored state.          *)
(***************************************************************************)
EXTENDS Integers, Sequences, FiniteSets, Bags, TLC

VARIABLES
    members,           \* table "members": id -> row, for the ids that exist
    memberIdentities,  \* table "memberIdentities": a bag of rows
    memberSegments,    \* table "memberSegments": a bag of rows
    membersSyncRemote, \* table "membersSyncRemote": a bag of rows
    now,               \* the clock read by new Date()
    upd,               \* the update calls in flight: a bag of their timestamps
    listing,           \* the getMemberIdsAndEmailsAndCount call in flight
    last               \* outcome of the last completed repository call

vars == <<members, memberIdentities, memberSegments, membersSyncRemote,
          now, upd, listing, last>>

----------------------------------------------------------------------------
(* Bounds of the model *)

MaxTime == 2     \* the clock runs 0..MaxTime
MaxLen  == 2     \* longest identities[] argument

(* Value domains of the arguments *)

Tenants      == {"T1", "T2"}
SegmentIds   == {"s1", "s2"}
Integrations == {"i1"}
Emails       == {"e1"}
Times        == 0..MaxTime
Writers      == {"w1", "w2"}      \* concurrent callers of update

\* the ids generateUUIDv1() hands out, in the order it hands them out
UUIDs     == <<"m1", "m2">>
MemberIds == { UUIDs[k] : k \in 1..Len(UUIDs) }

\* the ids generateUUIDv1() hands out for "membersSyncRemote" rows, in order
SyncUUIDs == <<"r1", "r2", "r3", "r4">>
SourceIds == {"src1", "src2"}

\* orderBy arguments, each given as orderBy.split('_') leaves it
OrderBys ==
    { <<"joinedAt", "DESC">>, <<"displayName", "ASC">>, <<"reach", "DESC">>,
      <<"score", "ASC">>, <<"bogus", "ASC">>, <<"bogus">> }
\* segmentIds arguments: one segment, or both
SegmentIdLists == { {"s1"}, {"s1", "s2"} }
Limits  == {1, 2}
Offsets == {0, 1}

\* IMemberIdentity values (platform, username) the callers pass
Identities ==
    { [platform |-> "github",  username |-> "u1"],
      [platform |-> "twitter", username |-> "u1"] }

RECURSIVE SeqsUpTo(_, _)
SeqsUpTo(S, n) ==
    IF n = 0 THEN { <<>> }
    ELSE LET shorter == SeqsUpTo(S, n - 1)
         IN  shorter \cup { Append(q, x) : q \in { r \in shorter : Len(r) = n - 1 }, x \in S }

IdentityLists == SeqsUpTo(Identities, MaxLen)

----------------------------------------------------------------------------
(* weakIdentities: JSON.stringify and what the column then holds *)

WeakLists == { <<>>, <<"w2">> }

RECURSIVE JsonItems(_)
JsonItems(l) ==
    IF l = <<>> THEN ""
    ELSE IF Len(l) = 1 THEN "\"" \o l[1] \o "\""
    ELSE "\"" \o l[1] \o "\"," \o JsonItems(Tail(l))

\* JSON.stringify of a list of strings
JSONstringify(l) == "[" \o JsonItems(l) \o "]"

\* JSON.parse, the inverse on the texts JSON.stringify produces
JSONparse(text) == CHOOSE l \in WeakLists : JSONstringify(l) = text

\* A value handed to the column: the JSON text, or the array object itself
JsonText(text) == [kind |-> "json",  text |-> text, items |-> <<>>]
RawArray(l)    == [kind |-> "array", text |-> "",   items |-> l]

\* The list a stored weakIdentities value stands for
WeakValue(w) == IF w.kind = "json" THEN JSONparse(w.text) ELSE w.items

----------------------------------------------------------------------------
(* Arguments of create and update *)

\* IDbMemberCreateData: weakIdentities is optional (has = FALSE: undefined)
CreateData ==
    { [displayName |-> "X", emails |-> {"e1"}, hasWeak |-> FALSE, weakIdentities |-> <<>>,
       joinedAt |-> 1, reach |-> 1, score |-> 1],
      [displayName |-> "Y", emails |-> {"e1"}, hasWeak |-> TRUE,  weakIdentities |-> <<"w2">>,
       joinedAt |-> 1, reach |-> 1, score |-> 1] }

\* a member created without an email, for the lookups
CreateDataNoEmail ==
    [displayName |-> "X", emails |-> {}, hasWeak |-> FALSE, weakIdentities |-> <<>>,
     joinedAt |-> 1, reach |-> 1, score |-> 1]

\* members that differ in the columns the listing orders by
CreateDataListed ==
    { [displayName |-> "X", emails |-> {"e1"}, hasWeak |-> FALSE, weakIdentities |-> <<>>,
       joinedAt |-> 1, reach |-> 2, score |-> 1],
      [displayName |-> "Y", emails |-> {}, hasWeak |-> FALSE, weakIdentities |-> <<>>,
       joinedAt |-> 2, reach |-> 1, score |-> 1] }

\* IDbMemberUpdateData: an object holding any subset of the fields; keys are
\* Object.keys(data), a field outside keys carries a fixed filler value.
UpdateFields == {"displayName", "weakIdentities"}

UpdateData ==
    { d \in [keys : SUBSET UpdateFields,
             displayName : {"X", "Y"},
             weakIdentities : { <<>>, <<"w2">> }] :
        /\ Cardinality(d.keys) <= 1
        /\ ("displayName" \notin d.keys => d.displayName = "X")
        /\ ("weakIdentities" \notin d.keys => d.weakIdentities = <<>>) }

----------------------------------------------------------------------------
(* Outcome of a call, as the caller and the storage see it *)

Void == <<>>     \* a Promise<void> resolves with no value

\* op: the method; id: the member id create made or update was given;
\* wanted: the rows the call addressed (update: the rows with its id and
\* tenantId, removeIdentities: identities.length); rowCount: the rows its
\* statement affected; error: what it threw; ret: what it resolved with
Outcome(op, id, wanted, rowCount, error, ret) ==
    [op |-> op, id |-> id, wanted |-> wanted, rowCount |-> rowCount,
     error |-> error, ret |-> ret]

NoId == ""

Raised == last.error # "none"

\* no getMemberIdsAndEmailsAndCount call is between its two queries
NoListing == [pc |-> "idle", tenantId |-> "", segmentIds |-> {}, count |-> 0, issued |-> 0]

----------------------------------------------------------------------------
Init ==
    /\ members = [i \in {} |-> 0]
    /\ memberIdentities = EmptyBag
    /\ memberSegments = EmptyBag
    /\ membersSyncRemote = EmptyBag
    /\ now = 0
    /\ upd = EmptyBag
    /\ listing = NoListing
    /\ last = Outcome("none", NoId, 0, 0, "none", Void)

\* the clock advances
Tick ==
    /\ now < MaxTime
    /\ now' = now + 1
    /\ UNCHANGED <<members, memberIdentities, memberSegments, upd, last, membersSyncRemote, listing>>

(* create *)

\* generateUUIDv1(): a fresh, time-ordered id
NewId == UUIDs[Cardinality(DOMAIN members) + 1]

\* the row create inserts (createdAt, which carries the same ts and which no
\* other statement of the repository reads or writes, is left out of the row)
CreatedRow(tenantId, data, ts) ==
    [tenantId       |-> tenantId,
     displayName    |-> data.displayName,
     emails         |-> data.emails,
     weakIdentities |-> JsonText(JSONstringify(IF data.hasWeak THEN data.weakIdentities ELSE <<>>)),
     joinedAt       |-> data.joinedAt,
     reach          |-> data.reach,
     score          |-> data.score,
     updatedAt      |-> ts]

Create(tenantId, data) ==
    /\ Cardinality(DOMAIN members) < Len(UUIDs)
    /\ LET id == NewId
           ts == now
       IN  /\ members' = [i \in DOMAIN members \cup {id} |->
                             IF i = id THEN CreatedRow(tenantId, data, ts) ELSE members[i]]
           /\ last' = Outcome("create", id, 1, 1, "none", <<id>>)
    /\ UNCHANGED <<memberIdentities, memberSegments, now, upd, membersSyncRemote, listing>>

(* update *)

\* const updatedAt = new Date(): one more call holds a timestamp and has not
\* run its statement yet
UpdateBegin ==
    /\ BagCardinality(upd) < Cardinality(Writers)
    /\ upd' = upd (+) SetToBag({now})
    /\ UNCHANGED <<members, memberIdentities, memberSegments, now, last, membersSyncRemote, listing>>

\* the value the prepared object carries for weakIdentities
PreparedWeak(data) ==
    IF Len(data.weakIdentities) > 0
    THEN JsonText(JSONstringify(data.weakIdentities))
    ELSE RawArray(data.weakIdentities)

\* UpdatedRow with every column of the row written, not only Object.keys(data)
UpdatedRowAllColumns(row, data, updatedAt) ==
    [row EXCEPT
        !.displayName    = data.displayName,
        !.weakIdentities = PreparedWeak(data),
        !.updatedAt      = updatedAt]

\* the row after "update members set <keys, updatedAt>"
UpdatedRow(row, data, updatedAt) ==
    [row EXCEPT
        !.displayName    = IF "displayName" \in data.keys THEN data.displayName ELSE @,
        !.weakIdentities = IF "weakIdentities" \in data.keys THEN PreparedWeak(data) ELSE @,
        !.updatedAt      = updatedAt]

\* UpdateCondition with "updatedAt" <= $(updatedAt)
UpdateConditionLessOrEqual(i, id, tenantId, updatedAt) ==
    /\ i = id
    /\ members[i].tenantId = tenantId
    /\ members[i].updatedAt <= updatedAt

\* UpdateCondition without the timestamp guard
UpdateConditionNoGuard(i, id, tenantId, updatedAt) ==
    /\ i = id
    /\ members[i].tenantId = tenantId

\* UpdateCondition without the tenantId conjunct
UpdateConditionAnyTenant(i, id, tenantId, updatedAt) ==
    /\ i = id
    /\ members[i].updatedAt < updatedAt

\* where id = $(id) and "tenantId" = $(tenantId) and "updatedAt" < $(updatedAt)
UpdateCondition(i, id, tenantId, updatedAt) ==
    /\ i = id
    /\ members[i].tenantId = tenantId
    /\ members[i].updatedAt < updatedAt

\* what update resolves with: the result of db().result() is dropped
UpdateReturn(rowCount) == Void

\* the statement of a call that took updatedAt runs; the arguments do not
\* change over the call, so they are drawn here
UpdateExec(updatedAt, id, tenantId, data) ==
    /\ BagIn(updatedAt, upd)
    /\ LET hit == { i \in DOMAIN members : UpdateCondition(i, id, tenantId, updatedAt) }
       IN  /\ members' = [i \in DOMAIN members |->
                             IF i \in hit THEN UpdatedRow(members[i], data, updatedAt)
                                          ELSE members[i]]
           /\ last' = Outcome("update", id,
                              Cardinality({ i \in DOMAIN members :
                                              i = id /\ members[i].tenantId = tenantId }),
                              Cardinality(hit), "none", UpdateReturn(Cardinality(hit)))
    /\ upd' = upd (-) SetToBag({updatedAt})
    /\ UNCHANGED <<memberIdentities, memberSegments, now, membersSyncRemote, listing>>

----------------------------------------------------------------------------
(* memberIdentities *)

IdentityRow(memberId, tenantId, integrationId, i) ==
    [memberId |-> memberId, tenantId |-> tenantId, integrationId |-> integrationId,
     platform |-> i.platform, username |-> i.username]

\* a batch cut to its first tuple
InsertedRowsFirstOnly(memberId, tenantId, integrationId, identities) ==
    [k \in 1..(IF identities = <<>> THEN 0 ELSE 1) |->
        IdentityRow(memberId, tenantId, integrationId, identities[k])]

\* identities.map(...): the objects insertIdentities hands to the insert
InsertedRows(memberId, tenantId, integrationId, identities) ==
    [k \in 1..Len(identities) |->
        IdentityRow(memberId, tenantId, integrationId, identities[k])]

RECURSIVE SeqToBag(_)
SeqToBag(q) == IF q = <<>> THEN EmptyBag ELSE SetToBag({Head(q)}) (+) SeqToBag(Tail(q))

\* the storage schema's uniqueness constraint on identity rows: one row per
\* (tenantId, platform, username)
SameIdentityKey(r1, r2) ==
    /\ r1.tenantId = r2.tenantId
    /\ r1.platform = r2.platform
    /\ r1.username = r2.username

\* a schema that declares no uniqueness on identity rows
IdentityConstraintAbsent(stored, rows) == FALSE

IdentityConstraintViolated(stored, rows) ==
    \/ \E k \in 1..Len(rows) : \E r \in BagToSet(stored) : SameIdentityKey(rows[k], r)
    \/ \E j, k \in 1..Len(rows) : j # k /\ SameIdentityKey(rows[j], rows[k])

\* one multi-row insert statement: all rows or, on a violation, none
InsertIdentities(memberId, tenantId, integrationId, identities) ==
    /\ LET rows == InsertedRows(memberId, tenantId, integrationId, identities)
       IN  IF identities = <<>>
           THEN \* helpers.insert refuses an empty array of objects
                /\ memberIdentities' = memberIdentities
                /\ last' = Outcome("insertIdentities", NoId, 0, 0, "empty", Void)
           ELSE IF IdentityConstraintViolated(memberIdentities, rows)
           THEN /\ memberIdentities' = memberIdentities
                /\ last' = Outcome("insertIdentities", NoId, Len(rows), 0, "unique", Void)
           ELSE /\ memberIdentities' = memberIdentities (+) SeqToBag(rows)
                /\ last' = Outcome("insertIdentities", NoId, Len(rows), Len(rows), "none", Void)
    /\ UNCHANGED <<members, memberSegments, now, upd, membersSyncRemote, listing>>

\* ("platform", "username") in (<formattedIdentities>)
InFormattedIdentities(r, identities) ==
    \E k \in 1..Len(identities) :
        r.platform = identities[k].platform /\ r.username = identities[k].username

\* DeleteCondition without the tenantId conjunct
DeleteConditionAnyTenant(r, memberId, tenantId, identities) ==
    /\ r.memberId = memberId
    /\ InFormattedIdentities(r, identities)

\* delete from "memberIdentities" where "memberId" = .. and "tenantId" = .. and (..) in (..)
DeleteCondition(r, memberId, tenantId, identities) ==
    /\ r.memberId = memberId
    /\ r.tenantId = tenantId
    /\ InFormattedIdentities(r, identities)

\* RepositoryBase.checkUpdateRowCount: throws unless the two counts are equal
CheckUpdateRowCount(rowCount, expected) ==
    IF rowCount # expected THEN "rowcount" ELSE "none"

\* removeIdentities without its closing check
RemoveCheckOmitted(rowCount, identities) == "none"

\* the closing check against one row, whatever the request's length
RemoveCheckExpectsOne(rowCount, identities) == CheckUpdateRowCount(rowCount, 1)

\* this.checkUpdateRowCount(result.rowCount, identities.length)
RemoveCheck(rowCount, identities) == CheckUpdateRowCount(rowCount, Len(identities))

\* the rows the delete statement removes
DeletedRows(memberId, tenantId, identities) ==
    LET gone == { r \in BagToSet(memberIdentities) :
                    DeleteCondition(r, memberId, tenantId, identities) }
    IN  [r \in gone |-> CopiesIn(r, memberIdentities)]

\* the delete statement commits by itself; the count is checked after it
RemoveIdentities(memberId, tenantId, identities) ==
    /\ IF identities = <<>>
       THEN \* "in ()" is not a statement the storage accepts
            /\ memberIdentities' = memberIdentities
            /\ last' = Outcome("removeIdentities", NoId, 0, 0, "syntax", Void)
       ELSE LET deleted  == DeletedRows(memberId, tenantId, identities)
                rowCount == BagCardinality(deleted)
            IN  /\ memberIdentities' = memberIdentities (-) deleted
                /\ last' = Outcome("removeIdentities", NoId, Len(identities), rowCount,
                                   RemoveCheck(rowCount, identities), Void)
    /\ UNCHANGED <<members, memberSegments, now, upd, membersSyncRemote, listing>>

----------------------------------------------------------------------------
(* memberSegments *)

SegmentRow(memberId, tenantId, segmentId) ==
    [memberId |-> memberId, tenantId |-> tenantId, segmentId |-> segmentId]

\* the link table's key: one row per (memberId, tenantId, segmentId)
SegmentConflict(stored, row) == BagIn(row, stored)

\* a plain insert, without ' ON CONFLICT DO NOTHING'
OnConflictRaise == "error"

\* what the insert does on a conflicting row: ' ON CONFLICT DO NOTHING'
OnConflict == "nothing"

AddToSegment(memberId, tenantId, segmentId) ==
    /\ LET row == SegmentRow(memberId, tenantId, segmentId)
       IN  IF ~SegmentConflict(memberSegments, row)
           THEN /\ memberSegments' = memberSegments (+) SetToBag({row})
                /\ last' = Outcome("addToSegment", NoId, 1, 1, "none", Void)
           ELSE IF OnConflict = "nothing"
           THEN /\ memberSegments' = memberSegments
                /\ last' = Outcome("addToSegment", NoId, 1, 0, "none", Void)
           ELSE /\ memberSegments' = memberSegments
                /\ last' = Outcome("addToSegment", NoId, 1, 0, "unique", Void)
    /\ UNCHANGED <<members, memberIdentities, now, upd, membersSyncRemote, listing>>

----------------------------------------------------------------------------
(* membersSyncRemote *)

\* generateUUIDv1() of addToSyncRemote: a fresh id at every call
NewSyncId == SyncUUIDs[BagCardinality(membersSyncRemote) + 1]

\* the row the insert builds: syncFrom 'enrich', metaData and lastSyncedAt
\* null, status SyncStatus.NEVER
SyncRemoteRow(id, memberId, integrationId, sourceId) ==
    [id |-> id, memberId |-> memberId, sourceId |-> sourceId,
     integrationId |-> integrationId, syncFrom |-> "enrich", status |-> "NEVER"]

\* the table's key: the generated id
SyncRemoteConflict(stored, row) == \E r \in BagToSet(stored) : r.id = row.id

AddToSyncRemote(memberId, integrationId, sourceId) ==
    /\ BagCardinality(membersSyncRemote) < Len(SyncUUIDs)
    /\ LET row == SyncRemoteRow(NewSyncId, memberId, integrationId, sourceId)
       IN  IF ~SyncRemoteConflict(membersSyncRemote, row)
           THEN /\ membersSyncRemote' = membersSyncRemote (+) SetToBag({row})
                /\ last' = Outcome("addToSyncRemote", memberId, 1, 1, "none", Void)
           ELSE /\ membersSyncRemote' = membersSyncRemote
                /\ last' = Outcome("addToSyncRemote", memberId, 1, 0, "none", Void)
    /\ UNCHANGED <<members, memberIdentities, memberSegments, now, upd, listing>>

----------------------------------------------------------------------------
(* Lookups: queries over the stored state *)

\* findMemberByEmail: the rows its where clause keeps; "limit 1" then returns
\* any one of them, or null when there is none
FindMemberByEmailRows(tenantId, email) ==
    { id \in DOMAIN members :
        members[id].tenantId = tenantId /\ email \in members[id].emails }

\* findMember restricted to the members of the segment it is given
FindMemberRowsInSegment(tenantId, segmentId, platform, username) ==
    { id \in DOMAIN members :
        /\ \E mi \in BagToSet(memberIdentities) :
              /\ mi.memberId = id
              /\ mi.tenantId = tenantId
              /\ mi.platform = platform
              /\ mi.username = username
        /\ \E ms \in BagToSet(memberSegments) :
              ms.memberId = id /\ ms.segmentId = segmentId }

\* findMember: members whose id is in the subquery over "memberIdentities";
\* segmentId is bound as a parameter and appears nowhere in the statement
FindMemberRows(tenantId, segmentId, platform, username) ==
    { id \in DOMAIN members :
        \E mi \in BagToSet(memberIdentities) :
            /\ mi.memberId = id
            /\ mi.tenantId = tenantId
            /\ mi.platform = platform
            /\ mi.username = username }

\* oneOrNone: null for no row, the row for one, an error for more
FindMember(tenantId, segmentId, platform, username) ==
    LET rows == FindMemberRows(tenantId, segmentId, platform, username)
    IN  [error |-> IF Cardinality(rows) > 1 THEN "multiple" ELSE "none",
         rows  |-> IF Cardinality(rows) > 1 THEN {} ELSE rows]

\* `${row.platform}:${row.username}`
IdentityKey(platform, username) == platform \o ":" \o username

NoMember == ""    \* memberId left out: if (memberId) is false

\* findIdentities: the rows of the join with the input values
FindIdentitiesRows(tenantId, identities, memberId) ==
    { mi \in BagToSet(memberIdentities) :
        /\ \E k \in 1..Len(identities) :
              mi.platform = identities[k].platform /\ mi.username = identities[k].username
        /\ mi.tenantId = tenantId
        /\ (memberId # NoMember => mi.memberId # memberId) }

\* the maps resultMap may end as: rows come in storage order and a later row
\* with the same key replaces an earlier one.  An empty identities[] gives
\* "values " with nothing after it, which the storage rejects.
FindIdentities(tenantId, identities, memberId) ==
    LET rows == FindIdentitiesRows(tenantId, identities, memberId)
        keys == { IdentityKey(r.platform, r.username) : r \in rows }
    IN  IF identities = <<>>
        THEN [error |-> "syntax", maps |-> {}]
        ELSE [error |-> "none",
              maps  |-> { f \in [keys -> MemberIds] :
                            \A k \in keys : \E r \in rows :
                                IdentityKey(r.platform, r.username) = k /\ f[k] = r.memberId }]

\* getMemberIdsAndEmailsAndCount: the members the join of "members" with
\* "memberSegments" keeps for a tenant and a list of segment ids
ListedMemberIds(tenantId, segmentIds) ==
    { id \in DOMAIN members :
        /\ members[id].tenantId = tenantId
        /\ \E ms \in BagToSet(memberSegments) :
              ms.memberId = id /\ ms.segmentId \in segmentIds }

----------------------------------------------------------------------------
(* getMemberIdsAndEmailsAndCount *)

\* String.prototype.toLowerCase on the directions callers pass
ToLowerCase(text) ==
    CASE text = "ASC"  -> "asc"
      [] text = "DESC" -> "desc"
      [] OTHER         -> text

\* a switch with no default branch: an unknown field orders by m."joinedAt"
OrderByStringNoDefault(field) ==
    CASE field = "displayName" -> "displayName"
      [] field = "reach"       -> "reach"
      [] field = "score"       -> "score"
      [] OTHER                 -> "joinedAt"

\* switch (orderByParts[0]): the column the listing orders by; "" stands for
\* the default branch, which throws
OrderByString(field) ==
    CASE field = "joinedAt"    -> "joinedAt"
      [] field = "displayName" -> "displayName"
      [] field = "reach"       -> "reach"
      [] field = "score"       -> "score"
      [] OTHER                 -> ""

\* what the method throws before it issues a statement: orderByParts[1] is
\* undefined when orderBy holds no '_' (a TypeError on .toLowerCase()), and
\* the switch rejects an unknown field
OrderByError(orderBy) ==
    IF Len(orderBy) < 2 THEN "type"
    ELSE IF OrderByString(orderBy[1]) = "" THEN "invalid"
    ELSE "none"

\* the rows of members m JOIN memberSegments ms ON ms.memberId = m.id
\* WHERE m.tenantId = tenantId AND ms.segmentId = ANY(segmentIds)
\* (a join row is <<member id, "memberSegments" row, copy of that row>>)
JoinRows(tenantId, segmentIds) ==
    UNION { { <<ms.memberId, ms, c>> : c \in 1..CopiesIn(ms, memberSegments) } :
              ms \in { x \in BagToSet(memberSegments) :
                         /\ x.memberId \in DOMAIN members
                         /\ members[x.memberId].tenantId = tenantId
                         /\ x.segmentId \in segmentIds } }

\* SELECT count(*) FROM (...) as count
CountQuery(tenantId, segmentIds) == Cardinality(JoinRows(tenantId, segmentIds))

\* the place of a text in the column's collation
TextRank(text) == IF text = "X" THEN 1 ELSE 2

\* the value ORDER BY compares: m."joinedAt", m."displayName",
\* (m.reach ->> 'total')::int or m.score, negated for 'desc'
SortValue(column, direction, id) ==
    LET v == CASE column = "joinedAt"    -> members[id].joinedAt
               [] column = "displayName" -> TextRank(members[id].displayName)
               [] column = "reach"       -> members[id].reach
               [] column = "score"       -> members[id].score
    IN  IF direction = "desc" THEN 0 - v ELSE v

\* the first n rows of the join in an order ORDER BY allows, each row given
\* by its member id; left[id] is the number of join rows of id not placed
\* yet, and rows with equal sort values come in any order
RECURSIVE OrderedRows(_, _, _, _)
OrderedRows(left, n, column, direction) ==
    LET rest == { id \in DOMAIN left : left[id] > 0 }
        next == { id \in rest : \A o \in rest :
                    SortValue(column, direction, id) <= SortValue(column, direction, o) }
    IN  IF n = 0 \/ rest = {} THEN { <<>> }
        ELSE UNION { { <<id>> \o q :
                         q \in OrderedRows([left EXCEPT ![id] = @ - 1], n - 1,
                                           column, direction) } : id \in next }

\* the listing without its OFFSET: always the first page
ListQueryNoOffset(tenantId, segmentIds, limit, offset, orderBy) ==
    LET rows == JoinRows(tenantId, segmentIds)
        left == [id \in DOMAIN members |-> Cardinality({ jr \in rows : jr[1] = id })]
        all  == OrderedRows(left, limit, OrderByString(orderBy[1]), ToLowerCase(orderBy[2]))
    IN  { [k \in 1..Len(q) |-> [id |-> q[k], emails |-> members[q[k]].emails]] : q \in all }

\* SELECT m.id, m.emails ... ORDER BY ... LIMIT limit OFFSET offset: the
\* lists of rows the statement may return
ListQuery(tenantId, segmentIds, limit, offset, orderBy) ==
    LET rows == JoinRows(tenantId, segmentIds)
        left == [id \in DOMAIN members |-> Cardinality({ jr \in rows : jr[1] = id })]
        all  == OrderedRows(left, offset + limit, OrderByString(orderBy[1]),
                            ToLowerCase(orderBy[2]))
    IN  { [k \in 1..(IF Len(q) > offset THEN Len(q) - offset ELSE 0) |->
             [id |-> q[offset + k], emails |-> members[q[offset + k]].emails]] : q \in all }

\* { totalCount, members }
ListResult(totalCount, rows) == [totalCount |-> totalCount, members |-> rows]

\* totalCount taken from the page that was read
ListResultPageCount(totalCount, rows) == [totalCount |-> Len(rows), members |-> rows]

\* what the method returns
ListReturn(totalCount, rows) == ListResult(totalCount, rows)

\* the outcomes of a call that no other call interleaves with: the error it
\* throws, the statements it issued and the value it returns
GetMemberIdsAndEmailsAndCount(tenantId, segmentIds, limit, offset, orderBy, countOnly) ==
    IF OrderByError(orderBy) # "none"
    THEN { [error |-> OrderByError(orderBy), issued |-> 0, ret |-> ListReturn(0, <<>>)] }
    ELSE IF countOnly
    THEN { [error |-> "none", issued |-> 1,
            ret |-> ListReturn(CountQuery(tenantId, segmentIds), <<>>)] }
    ELSE { [error |-> "none", issued |-> 2,
            ret |-> ListReturn(CountQuery(tenantId, segmentIds), rows)] :
              rows \in ListQuery(tenantId, segmentIds, limit, offset, orderBy) }

\* the call up to its first await: the orderBy checks, then the count query;
\* with countOnly it returns here
GetMembersCount(tenantId, segmentIds, orderBy, countOnly) ==
    /\ listing.pc = "idle"
    /\ IF OrderByError(orderBy) # "none"
       THEN /\ listing' = NoListing
            /\ last' = Outcome("getMemberIdsAndEmailsAndCount", NoId, 0, 0,
                               OrderByError(orderBy), Void)
       ELSE IF countOnly
       THEN /\ listing' = [NoListing EXCEPT !.issued = 1]
            /\ last' = Outcome("getMemberIdsAndEmailsAndCount", NoId, 0, 0, "none",
                               <<ListReturn(CountQuery(tenantId, segmentIds), <<>>)>>)
       ELSE /\ listing' = [pc |-> "counted", tenantId |-> tenantId,
                           segmentIds |-> segmentIds,
                           count |-> CountQuery(tenantId, segmentIds), issued |-> 1]
            /\ last' = last
    /\ UNCHANGED <<members, memberIdentities, memberSegments, membersSyncRemote, now, upd>>

\* the rest of the call: the listing query and the return.  limit, offset
\* and orderBy are the call's arguments; they are first used here, so they
\* are drawn here (orderBy among those the checks let through)
GetMembersList(limit, offset, orderBy) ==
    /\ listing.pc = "counted"
    /\ OrderByError(orderBy) = "none"
    /\ \E rows \in ListQuery(listing.tenantId, listing.segmentIds, limit, offset, orderBy) :
          last' = Outcome("getMemberIdsAndEmailsAndCount", NoId, 0, 0, "none",
                          <<ListReturn(listing.count, rows)>>)
    /\ listing' = [NoListing EXCEPT !.issued = 2]
    /\ UNCHANGED <<members, memberIdentities, memberSegments, membersSyncRemote, now, upd>>

----------------------------------------------------------------------------
(* Specifications *)

\* member rows under concurrent updates
NextMembers ==
    \/ Tick
    \/ \E t \in Tenants, d \in CreateData : Create(t, d)
    \/ UpdateBegin
    \/ \E ts \in Times, id \in MemberIds, t \in Tenants, d \in UpdateData :
          UpdateExec(ts, id, t, d)

SpecMembers == Init /\ [][NextMembers]_vars

\* identity rows under batches of every length up to MaxLen
NextIdentities ==
    \/ \E m \in MemberIds, t \in Tenants, g \in Integrations, l \in IdentityLists :
          InsertIdentities(m, t, g, l)
    \/ \E m \in MemberIds, t \in Tenants, l \in IdentityLists :
          RemoveIdentities(m, t, l)

SpecIdentities == Init /\ [][NextIdentities]_vars

\* members and the identity rows that point at them, one identity per call
NextLookup ==
    \/ \E t \in Tenants, d \in CreateData \cup {CreateDataNoEmail} : Create(t, d)
    \/ \E m \in MemberIds, t \in Tenants, g \in Integrations, i \in Identities :
          InsertIdentities(m, t, g, <<i>>)
    \/ \E m \in MemberIds, t \in Tenants, i \in Identities :
          RemoveIdentities(m, t, <<i>>)

SpecLookup == Init /\ [][NextLookup]_vars

\* segment membership
NextSegments ==
    \/ \E t \in Tenants, d \in CreateData \cup {CreateDataNoEmail} : Create(t, d)
    \/ \E m \in MemberIds, t \in Tenants, s \in SegmentIds : AddToSegment(m, t, s)

SpecSegments == Init /\ [][NextSegments]_vars

\* members with identities and segment memberships, for findMember
NextFindMember ==
    \/ \E t \in Tenants : Create(t, CreateDataNoEmail)
    \/ \E m \in MemberIds, t \in Tenants, g \in Integrations, i \in Identities :
          InsertIdentities(m, t, g, <<i>>)
    \/ \E m \in MemberIds, s \in SegmentIds : AddToSegment(m, "T1", s)

SpecFindMember == Init /\ [][NextFindMember]_vars

\* the two writes that take a tenantId in their where clause.  update reads
\* and writes "members" only and removeIdentities "memberIdentities" only, so
\* a behaviour works on one of the two tables at a time.
NextTenantWrites ==
    \/ last.op \notin {"insertIdentities", "removeIdentities"} /\ NextMembers
    \/ DOMAIN members = {} /\ now = 0 /\ upd = EmptyBag /\ NextIdentities

SpecTenantWrites == Init /\ [][NextTenantWrites]_vars

\* listings while members are created and added to segments; the listing
\* does not read the tenantId of a "memberSegments" row, so one value is used
NextListing ==
    \/ \E t \in Tenants, d \in CreateDataListed : Create(t, d)
    \/ \E m \in MemberIds, s \in SegmentIds : AddToSegment(m, "T1", s)
    \/ \E t \in Tenants, segs \in SegmentIdLists, o \in OrderBys, c \in BOOLEAN :
          GetMembersCount(t, segs, o, c)
    \/ \E l \in Limits, f \in Offsets, o \in OrderBys : GetMembersList(l, f, o)

SpecListing == Init /\ [][NextListing]_vars

\* rows marked for the outbound sync
NextSyncRemote ==
    \E m \in MemberIds, g \in Integrations, s \in SourceIds : AddToSyncRemote(m, g, s)

SpecSyncRemote == Init /\ [][NextSyncRemote]_vars

\* every method, in any order
Next ==
    \/ Tick
    \/ \E t \in Tenants, d \in CreateData \cup {CreateDataNoEmail} : Create(t, d)
    \/ UpdateBegin
    \/ \E ts \in Times, id \in MemberIds, t \in Tenants, d \in UpdateData :
          UpdateExec(ts, id, t, d)
    \/ \E m \in MemberIds, t \in Tenants, g \in Integrations, l \in IdentityLists :
          InsertIdentities(m, t, g, l)
    \/ \E m \in MemberIds, t \in Tenants, l \in IdentityLists :
          RemoveIdentities(m, t, l)
    \/ \E m \in MemberIds, t \in Tenants, s \in SegmentIds : AddToSegment(m, t, s)
    \/ \E t \in Tenants, segs \in SegmentIdLists, o \in OrderBys, c \in BOOLEAN :
          GetMembersCount(t, segs, o, c)
    \/ \E l \in Limits, f \in Offsets, o \in OrderBys : GetMembersList(l, f, o)
    \/ NextSyncRemote

Spec == Init /\ [][Next]_vars

----------------------------------------------------------------------------
(* Properties *)

Owns(stored, memberId, tenantId, i) ==
    \E r \in BagToSet(stored) :
        /\ r.memberId = memberId
        /\ r.tenantId = tenantId
        /\ r.platform = i.platform
        /\ r.username = i.username

\* C1: no lookup scoped to a tenant returns a member row of another tenant:
\* not findMemberByEmail, not findMember, not the listing of
\* getMemberIdsAndEmailsAndCount, whatever their other arguments.
TenantIsolation ==
    \A t \in Tenants :
        /\ \A e \in Emails : \A id \in FindMemberByEmailRows(t, e) :
              members[id].tenantId = t
        /\ \A s \in SegmentIds, i \in Identities :
              \A id \in FindMember(t, s, i.platform, i.username).rows :
                  members[id].tenantId = t
        /\ \A segs \in SegmentIdLists : \A id \in ListedMemberIds(t, segs) :
              members[id].tenantId = t

\* C2: within one tenant each (platform, username) is owned by at most one
\* memberId, after any interleaving of insertIdentities and removeIdentities
\* calls (findIdentities writes nothing).
IdentityUniqueness ==
    \A t \in Tenants, i \in Identities :
        Cardinality({ m \in MemberIds : Owns(memberIdentities, m, t, i) }) <= 1

\* C2 witness: a second member's insert of an identity that is taken was refused
IdentityUniquenessWitness ==
    /\ last.op = "insertIdentities"
    /\ last.error = "unique"
    /\ \E t \in Tenants, i \in Identities : Owns(memberIdentities, "m1", t, i)
    /\ \E t \in Tenants, i \in Identities : Owns(memberIdentities, "m2", t, i)

\* the step in which the statement of an update call stamped ts runs
UpdateRuns(ts) == BagIn(ts, upd) /\ upd' = upd (-) SetToBag({ts})

\* C3: under any interleaving of update calls, a row's stored updatedAt never
\* decreases, every step that changes a row strictly increases its updatedAt,
\* and a statement stamped no later than the stored updatedAt changes no field.
NoStaleOverwrite ==
    [][ /\ \A id \in DOMAIN members :
              /\ id \in DOMAIN members'
              /\ members'[id].updatedAt >= members[id].updatedAt
              /\ members'[id] # members[id] =>
                     members'[id].updatedAt > members[id].updatedAt
        /\ \A ts \in Times :
              UpdateRuns(ts) =>
                  \A id \in DOMAIN members :
                      ts <= members[id].updatedAt =>
                          members'[id] = members[id]
      ]_vars

\* C3 witness: an update lost to a newer write of the row while a second
\* update call is still between its timestamp and its statement
NoStaleOverwriteWitness ==
    /\ last.op = "update" /\ last.wanted = 1 /\ last.rowCount = 0
    /\ \E id \in DOMAIN members :
          /\ members[id].updatedAt >= 1
          /\ members[id].weakIdentities.kind = "array"
    /\ \E ts \in Times : BagIn(ts, upd) /\ ts < now

\* C4: an update whose timestamp is equal to or earlier than the stored
\* updatedAt of the row it names affects zero rows and leaves the whole
\* members table as it was.
StaleUpdateNoOp ==
    [][ \A ts \in Times :
            ( /\ UpdateRuns(ts)
              /\ last'.id \in DOMAIN members
              /\ ts <= members[last'.id].updatedAt )
            => (last'.rowCount = 0 /\ members' = members)
      ]_vars

\* C4 witness: create and update at the same instant; the update hit nothing
StaleUpdateNoOpWitness ==
    /\ now = 0
    /\ last.op = "update" /\ last.wanted = 1 /\ last.rowCount = 0

\* C5: an update of an existing row with a strictly later timestamp leaves
\* every field of data in the row, sets updatedAt to the new timestamp, and
\* changes no other field of the row and no other row.
SparseWrite ==
    [][ \A ts \in Times :
            (UpdateRuns(ts) /\ last'.id \in DOMAIN members) =>
                LET id == last'.id
                    t  == members[id].tenantId
                IN  \A d \in UpdateData :
                        ( /\ members[id].updatedAt < ts
                          /\ UpdateExec(ts, id, t, d) )
                        => /\ DOMAIN members' = DOMAIN members
                           /\ last'.rowCount = 1
                           /\ members'[id].updatedAt = ts
                           /\ members'[id].displayName =
                                 IF "displayName" \in d.keys THEN d.displayName
                                 ELSE members[id].displayName
                           /\ "weakIdentities" \in d.keys =>
                                 WeakValue(members'[id].weakIdentities) = d.weakIdentities
                           /\ "weakIdentities" \notin d.keys =>
                                 members'[id].weakIdentities = members[id].weakIdentities
                           /\ members'[id].emails = members[id].emails
                           /\ members'[id].tenantId = members[id].tenantId
                           /\ \A other \in DOMAIN members \ {id} :
                                 members'[other] = members[other]
      ]_vars

\* C5 witness: a row created as "X" holds "Y" after an applied update, next
\* to a second row
SparseWriteWitness ==
    /\ last.op = "update" /\ last.rowCount = 1
    /\ Cardinality(DOMAIN members) = 2
    /\ members[last.id].displayName = "Y"
    /\ WeakValue(members[last.id].weakIdentities) = <<>>
    /\ members[last.id].updatedAt = 2

\* C6: update does not raise, and what it resolves with is the affected-row
\* count, so that 1 row (applied) and 0 rows (lost) differ for the caller.
RowCountSurfaced ==
    last.op = "update" => (last.error = "none" /\ last.ret = <<last.rowCount>>)

\* C7: removeIdentities raises whenever some requested tuple is not owned by
\* memberId in tenantId when the delete runs, and whenever the number of
\* deleted rows differs from identities.length.
PartialDeleteDetected ==
    [][ \A m \in MemberIds, t \in Tenants, l \in IdentityLists :
            ( /\ \/ \E k \in 1..Len(l) : ~Owns(memberIdentities, m, t, l[k])
                 \/ Len(l) # BagCardinality(memberIdentities)
                               - BagCardinality(memberIdentities')
              /\ RemoveIdentities(m, t, l) )
            => last'.error # "none"
      ]_vars

\* C7 witness: of two requested tuples one was owned; the call raised
PartialDeleteDetectedWitness ==
    /\ last.op = "removeIdentities"
    /\ last.error = "rowcount"
    /\ last.wanted = 2 /\ last.rowCount = 1

\* C8, as claimed: when removeIdentities raises the count-mismatch error the
\* identity rows are what they were before the call.
RemoveFailureRolledBack ==
    [][ (last'.op = "removeIdentities" /\ last'.error = "rowcount")
            => memberIdentities' = memberIdentities ]_vars

\* C8, amended: when removeIdentities raises the count-mismatch error the
\* requested tuples that memberId owned in tenantId are deleted all the same,
\* and every other identity row is as it was.
RemoveFailureKeepsDeletion ==
    [][ \A m \in MemberIds, t \in Tenants, l \in IdentityLists :
            (RemoveIdentities(m, t, l) /\ last'.error = "rowcount")
            => \A r \in BagToSet(memberIdentities) \cup BagToSet(memberIdentities') :
                  CopiesIn(r, memberIdentities') =
                     IF /\ r.memberId = m
                        /\ r.tenantId = t
                        /\ \E k \in 1..Len(l) :
                              r.platform = l[k].platform /\ r.username = l[k].username
                     THEN 0
                     ELSE CopiesIn(r, memberIdentities)
      ]_vars

\* C8 witness: the call raised after it deleted a row, and rows of the other
\* tenant are stored
RemoveFailureKeepsDeletionWitness ==
    /\ last.op = "removeIdentities"
    /\ last.error = "rowcount"
    /\ last.rowCount >= 1
    /\ \E r1, r2 \in BagToSet(memberIdentities) : r1.tenantId # r2.tenantId

\* C9: for every list of candidate tuples findIdentities returns a map whose
\* keys are exactly the "platform:username" of the input tuples that a row of
\* the tenant, of a member other than excludeMemberId, holds, each mapped to
\* the memberId of such a row; nothing else is a key.
FindIdentitiesExact ==
    \A t \in Tenants, l \in IdentityLists, ex \in MemberIds \cup {NoMember} :
        LET res == FindIdentities(t, l, ex)
            Held(i, m) == Owns(memberIdentities, m, t, i) /\ (ex # NoMember => m # ex)
            wantKeys == { IdentityKey(l[k].platform, l[k].username) :
                            k \in { j \in 1..Len(l) : \E m \in MemberIds : Held(l[j], m) } }
        IN  /\ res.error = "none"
            /\ \A f \in res.maps :
                  /\ DOMAIN f = wantKeys
                  /\ \A k \in 1..Len(l) :
                        LET key == IdentityKey(l[k].platform, l[k].username)
                        IN  key \in DOMAIN f => Held(l[k], f[key])

\* C10: every addToSegment call returns without raising and leaves exactly
\* one row for its (memberId, tenantId, segmentId), however often it was
\* called before, and changes no other row.
AddToSegmentIdempotent ==
    [][ \A m \in MemberIds, t \in Tenants, s \in SegmentIds :
            AddToSegment(m, t, s)
            => /\ last'.error = "none"
               /\ CopiesIn(SegmentRow(m, t, s), memberSegments') = 1
               /\ \A r \in BagToSet(memberSegments) \cup BagToSet(memberSegments') :
                     r # SegmentRow(m, t, s) =>
                        CopiesIn(r, memberSegments') = CopiesIn(r, memberSegments)
               /\ UNCHANGED <<members, memberIdentities>>
      ]_vars

\* C10 witness: a repeated call found its row and added nothing
AddToSegmentIdempotentWitness ==
    /\ last.op = "addToSegment"
    /\ last.rowCount = 0
    /\ last.error = "none"
    /\ \E r \in BagToSet(memberSegments) : CopiesIn(r, memberSegments) = 1

\* the "membersSyncRemote" rows of one (memberId, integrationId, sourceId)
SyncRemoteRowsOf(memberId, integrationId, sourceId) ==
    { r \in BagToSet(membersSyncRemote) :
        r.memberId = memberId /\ r.integrationId = integrationId /\ r.sourceId = sourceId }

\* C11: addToSyncRemote is idempotent: however often it was called with one
\* (memberId, integrationId, sourceId), the table holds at most one row for
\* that triple, the row has status NEVER, and no call raised.
SyncRemoteIdempotent ==
    /\ \A m \in MemberIds, g \in Integrations, s \in SourceIds :
          /\ Cardinality(SyncRemoteRowsOf(m, g, s)) <= 1
          /\ \A r \in SyncRemoteRowsOf(m, g, s) : r.status = "NEVER"
    /\ (last.op = "addToSyncRemote" => ~Raised)

\* a tuple of the batch names a (platform, username) that tenantId already
\* stores, or that the batch names twice
BatchDuplicates(tenantId, identities) ==
    \/ \E k \in 1..Len(identities) : \E r \in BagToSet(memberIdentities) :
          /\ r.tenantId = tenantId
          /\ r.platform = identities[k].platform
          /\ r.username = identities[k].username
    \/ \E j, k \in 1..Len(identities) : j < k /\ identities[j] = identities[k]

\* C12: insertIdentities is all-or-nothing: a batch with a duplicate fails
\* with the storage error and inserts nothing; a failed call inserts
\* nothing; a call that succeeds stores every tuple with the given memberId,
\* tenantId and integrationId and changes no other row.
InsertAllOrNothing ==
    [][\A m \in MemberIds, t \in Tenants, g \in Integrations, l \in IdentityLists :
          (last'.op = "insertIdentities" /\ InsertIdentities(m, t, g, l)) =>
              /\ BatchDuplicates(t, l) => last'.error = "unique"
              /\ last'.error # "none" => memberIdentities' = memberIdentities
              /\ last'.error = "none" =>
                    /\ \A k \in 1..Len(l) :
                          /\ CopiesIn(IdentityRow(m, t, g, l[k]), memberIdentities) = 0
                          /\ CopiesIn(IdentityRow(m, t, g, l[k]), memberIdentities') = 1
                    /\ \A r \in BagToSet(memberIdentities) \cup BagToSet(memberIdentities') :
                          (\A k \in 1..Len(l) : r # IdentityRow(m, t, g, l[k])) =>
                              CopiesIn(r, memberIdentities') = CopiesIn(r, memberIdentities)
      ]_vars

\* C12 witness: a batch of two tuples was refused as a whole while a row was
\* stored, and the table still holds that one row
InsertAllOrNothingWitness ==
    /\ last.op = "insertIdentities"
    /\ last.error = "unique"
    /\ last.wanted = 2
    /\ BagCardinality(memberIdentities) = 1

\* the orderBy arguments the checks of the method let through
ValidOrderBys == { o \in OrderBys : OrderByError(o) = "none" }

\* C13: on one stored state a call with countOnly = true returns an empty
\* members list and the totalCount that the call with countOnly = false
\* returns, for every limit, offset and valid orderBy.
CountOnlyAgrees ==
    \A t \in Tenants, segs \in SegmentIdLists, l \in Limits, f \in Offsets,
       o \in ValidOrderBys :
        \A c \in GetMemberIdsAndEmailsAndCount(t, segs, l, f, o, TRUE) :
            /\ c.error = "none"
            /\ c.ret.members = <<>>
            /\ \A r \in GetMemberIdsAndEmailsAndCount(t, segs, l, f, o, FALSE) :
                  r.error = "none" /\ r.ret.totalCount = c.ret.totalCount

\* C13 witness: a countOnly call has returned totalCount 2 and no members
\* where the full call returns pages of one row with totalCount 2
CountOnlyAgreesWitness ==
    /\ last.op = "getMemberIdsAndEmailsAndCount"
    /\ listing.issued = 1
    /\ listing.pc = "idle"
    /\ last.ret = <<ListResult(2, <<>>)>>
    /\ \E t \in Tenants, segs \in SegmentIdLists :
          /\ CountQuery(t, segs) = 2
          /\ \A r \in GetMemberIdsAndEmailsAndCount(t, segs, 1, 0, <<"joinedAt", "DESC">>, FALSE) :
                Len(r.ret.members) = 1 /\ r.ret.totalCount = 2

\* the fields the listing can order by
OrderFields == {"joinedAt", "displayName", "reach", "score"}

\* C14: a call whose orderBy names a field outside joinedAt, displayName,
\* reach, score raises, and has issued no statement (neither the count query
\* nor the listing query) when it does, whatever countOnly is.
OrderByCheckedFirst ==
    [][(listing.pc = "idle" /\ last'.op = "getMemberIdsAndEmailsAndCount") =>
          \A t \in Tenants, segs \in SegmentIdLists, o \in OrderBys, c \in BOOLEAN :
              (o[1] \notin OrderFields /\ GetMembersCount(t, segs, o, c)) =>
                  /\ last'.error # "none"
                  /\ listing'.pc = "idle"
                  /\ listing'.issued = 0
      ]_vars

\* C14 witness: a call was rejected for its orderBy with no statement issued,
\* while the tables held rows its queries would have counted
OrderByCheckedFirstWitness ==
    /\ last.op = "getMemberIdsAndEmailsAndCount"
    /\ last.error = "invalid"
    /\ listing.issued = 0
    /\ CountQuery("T1", SegmentIds) > 0

\* C15: an applied update whose data has no weakIdentities, or has it as an
\* empty list, leaves the stored weakIdentities as they were; only a present,
\* non-empty list replaces them, by its serialization.
WeakIdentitiesAsymmetry ==
    [][ \A ts \in Times :
            (UpdateRuns(ts) /\ last'.id \in DOMAIN members /\ last'.rowCount = 1) =>
                LET id == last'.id
                    t  == members[id].tenantId
                IN  \A d \in UpdateData :
                        UpdateExec(ts, id, t, d) =>
                            IF "weakIdentities" \in d.keys /\ d.weakIdentities # <<>>
                            THEN members'[id].weakIdentities =
                                     JsonText(JSONstringify(d.weakIdentities))
                            ELSE WeakValue(members'[id].weakIdentities) =
                                     WeakValue(members[id].weakIdentities)
      ]_vars

\* C16: writes are scoped to the tenant passed: update(id, t, data) changes
\* no row when the member id belongs to another tenant, removeIdentities(
\* memberId, t, identities) deletes no identity row of another tenant, and
\* after either call every row of every tenant other than t is as it was.
TenantScopedWrites ==
    [][ /\ (last'.op = "update" /\ \E ts \in Times : UpdateRuns(ts)) =>
              \* last'.wanted counts the rows that have the id and the tenantId
              \* of the call: 0 when the member is another tenant's
              /\ DOMAIN members' = DOMAIN members
              /\ \A i \in DOMAIN members :
                    members'[i] # members[i] => (i = last'.id /\ last'.wanted = 1)
              /\ memberIdentities' = memberIdentities
        /\ last'.op = "removeIdentities" =>
              \A m \in MemberIds, t \in Tenants, l \in IdentityLists :
                  RemoveIdentities(m, t, l) =>
                      /\ \A r \in BagToSet(memberIdentities) :
                            r.tenantId # t =>
                                CopiesIn(r, memberIdentities') = CopiesIn(r, memberIdentities)
                      /\ members' = members
      ]_vars

\* C16 witness: an update named an existing member under a tenant that is
\* not the member's, with a timestamp later than the row's, and no row changed
TenantScopedWritesWitness ==
    /\ last.op = "update"
    /\ last.id \in DOMAIN members
    /\ last.wanted = 0
    /\ last.rowCount = 0
    /\ now > 0
    /\ \A i \in DOMAIN members : members[i].updatedAt = 0

Min(a, b) == IF a < b THEN a ELSE b
Max(a, b) == IF a < b THEN b ELSE a

\* the step in which a call's listing query runs and the call returns
ListingReturns == listing.pc = "counted" /\ listing'.pc = "idle"

\* C17, as claimed: the totalCount a call returns is the number of join rows
\* of its tenant and segments, and its members list has min(limit,
\* max(0, totalCount - offset)) rows, also while other callers run
\* addToSegment or create.
ListingAgreesWithCount ==
    [][ListingReturns =>
          \A l \in Limits, f \in Offsets, o \in ValidOrderBys :
              (Len(last'.ret[1].members) <= l /\ GetMembersList(l, f, o)) =>
                  LET r == last'.ret[1]
                  IN  /\ r.totalCount = Cardinality(JoinRows(listing.tenantId, listing.segmentIds))
                      /\ Len(r.members) = Min(l, Max(0, r.totalCount - f))
      ]_vars

\* the join rows of the call in flight that ORDER BY puts strictly before,
\* and not after, a row of member id
RowsBefore(id, o) ==
    { jr \in JoinRows(listing.tenantId, listing.segmentIds) :
        SortValue(OrderByString(o[1]), ToLowerCase(o[2]), jr[1]) <
        SortValue(OrderByString(o[1]), ToLowerCase(o[2]), id) }
RowsNotAfter(id, o) ==
    { jr \in JoinRows(listing.tenantId, listing.segmentIds) :
        SortValue(OrderByString(o[1]), ToLowerCase(o[2]), jr[1]) <=
        SortValue(OrderByString(o[1]), ToLowerCase(o[2]), id) }

\* C17, amended: totalCount is the number of join rows when the count query
\* runs, whatever limit and offset are; the members list is the slice
\* [offset, offset + limit) of the join rows present when the listing query
\* runs, in the resolved order, so it has min(limit, max(0, n - offset)) rows
\* for the n join rows present then, each with the id and emails of a member
\* of the tenant.
ListingAgreesPerQuery ==
    [][ /\ (listing.pc = "idle" /\ listing'.pc = "counted") =>
              listing'.count = Cardinality(JoinRows(listing'.tenantId, listing'.segmentIds))
        /\ ListingReturns =>
              \A l \in Limits, f \in Offsets, o \in ValidOrderBys :
                  (Len(last'.ret[1].members) <= l /\ GetMembersList(l, f, o)) =>
                      LET r    == last'.ret[1]
                          rows == JoinRows(listing.tenantId, listing.segmentIds)
                      IN  /\ r.totalCount = listing.count
                          /\ Len(r.members) = Min(l, Max(0, Cardinality(rows) - f))
                          /\ \A k \in 1..Len(r.members) :
                                LET id == r.members[k].id
                                IN  /\ id \in DOMAIN members
                                    /\ members[id].tenantId = listing.tenantId
                                    /\ r.members[k].emails = members[id].emails
                                    /\ Cardinality(RowsBefore(id, o)) <= f + k - 1
                                    /\ Cardinality(RowsNotAfter(id, o)) >= f + k
                                    /\ Cardinality({ j \in 1..Len(r.members) :
                                                       r.members[j].id = id })
                                          <= Cardinality({ jr \in rows : jr[1] = id })
      ]_vars

\* C17 witness: a call returned totalCount 0 together with a row, which a
\* member added to a segment between its two queries gave it
ListingAgreesPerQueryWitness ==
    /\ last.op = "getMemberIdsAndEmailsAndCount"
    /\ last.error = "none"
    /\ listing.issued = 2
    /\ last.ret[1].totalCount = 0
    /\ Len(last.ret[1].members) = 1

\* C18: findMember does not depend on segmentId: two calls that differ only
\* in segmentId return the same result; a member it returns owns an identity
\* row with the tenantId, platform and username given, a stored member that
\* owns such a row is returned, and nothing is returned when no such row
\* exists.
FindMemberIgnoresSegment ==
    \A t \in Tenants, i \in Identities :
        LET owners == { r.memberId : r \in { x \in BagToSet(memberIdentities) :
                            x.tenantId = t /\ x.platform = i.platform
                                           /\ x.username = i.username } }
        IN  \A s1 \in SegmentIds :
                LET found == FindMember(t, s1, i.platform, i.username)
                IN  /\ found.error = "none"
                    /\ found.rows \subseteq owners
                    /\ (owners \cap DOMAIN members # {}) => found.rows # {}
                    /\ owners = {} => found.rows = {}
                    /\ \A s2 \in SegmentIds :
                          FindMember(t, s2, i.platform, i.username) = found

\* C18 witness: a member that is in segment s1 and not in s2 owns an identity
\* row, and findMember returns it for either segmentId
FindMemberIgnoresSegmentWitness ==
    \E id \in DOMAIN members, t \in Tenants, i \in Identities :
        /\ Owns(memberIdentities, id, t, i)
        /\ \E ms \in BagToSet(memberSegments) : ms.memberId = id /\ ms.segmentId = "s1"
        /\ \A ms \in BagToSet(memberSegments) : ms.memberId = id => ms.segmentId # "s2"
        /\ FindMember(t, "s1", i.platform, i.username).rows = {id}
        /\ FindMember(t, "s2", i.platform, i.username).rows = {id}

\* memberId owns, in tenantId, every tuple of the request
OwnsAll(memberId, tenantId, identities) ==
    \A k \in 1..Len(identities) : Owns(memberIdentities, memberId, tenantId, identities[k])

\* what a removeIdentities call that succeeds leaves: no requested tuple
\* owned by memberId in tenantId, every other row as it was
RemovedExactly(memberId, tenantId, identities) ==
    /\ \A k \in 1..Len(identities) :
          ~Owns(memberIdentities', memberId, tenantId, identities[k])
    /\ \A r \in BagToSet(memberIdentities) :
          (\A k \in 1..Len(identities) :
               ~(/\ r.memberId = memberId /\ r.tenantId = tenantId
                 /\ r.platform = identities[k].platform
                 /\ r.username = identities[k].username)) =>
              CopiesIn(r, memberIdentities') = CopiesIn(r, memberIdentities)
    /\ \A r \in BagToSet(memberIdentities') :
          CopiesIn(r, memberIdentities') <= CopiesIn(r, memberIdentities)

\* C19, as claimed: when memberId owns every requested tuple in tenantId,
\* removeIdentities returns without error, leaves none of the tuples owned
\* and changes no other row, for every request list, also one that names a
\* tuple more than once.
RemoveSucceedsWhenOwned ==
    [][last'.op = "removeIdentities" =>
          \A m \in MemberIds, t \in Tenants, l \in IdentityLists :
              (OwnsAll(m, t, l) /\ RemoveIdentities(m, t, l)) =>
                  last'.error = "none" /\ RemovedExactly(m, t, l)
      ]_vars

\* C19, amended: the same for every request list that is not empty and names
\* no tuple twice.
RemoveSucceedsWhenOwnedOnce ==
    [][last'.op = "removeIdentities" =>
          \A m \in MemberIds, t \in Tenants, l \in IdentityLists :
              (/\ l # <<>>
               /\ \A j, k \in 1..Len(l) : j # k => l[j] # l[k]
               /\ OwnsAll(m, t, l)
               /\ RemoveIdentities(m, t, l)) =>
                  last'.error = "none" /\ RemovedExactly(m, t, l)
      ]_vars

\* C19 witness: a request of two tuples, both owned, was removed without error
RemoveSucceedsWhenOwnedOnceWitness ==
    /\ last.op = "removeIdentities"
    /\ last.error = "none"
    /\ last.wanted = 2
    /\ last.rowCount = 2

====
